---- MODULE Spec2Model ----
(***************************************************************************)
(* State-machine model of rock_paper_scissors.py: the `play` command of    *)
(* the Stretch rock-paper-scissors game (session loop, play_round,         *)
(* move_arm_animation with its speech thread, make_gesture, speak,         *)
(* determine_winner, cleanup) together with the exceptions that can cut a  *)
(* session short: an actuator command that raises, a say() that raises,    *)
(* and KeyboardInterrupt delivered to the main thread.                     *)
(*                                                                         *)
(* Units: lift heights are in decimetres (0.5 m = 5, 0.1 m = 1); joint     *)
(* targets of the pose table are in hundredths (1.57 = 157, 100.0 = 10000).*)
(***************************************************************************)
EXTENDS Integers, Sequences, FiniteSets, TLC

\* ---------------------------------------------------------------- bounds
MaxRounds == 2        \* --rounds is drawn from 0..MaxRounds
MaxInterrupts == 1    \* how many times Ctrl-C may be pressed in a session
MaxReprompts == 1     \* invalid answers click.prompt may reject per round
MaxStartOffset == 1   \* the lift starts within this distance of the pre-round height

\* ------------------------------------------------------ program constants
PreRoundHeight == 5   \* game.robot.lift.move_to(0.5)
up_distance == 1      \* up_distance = 0.1

\* ------------------------------------------------------- data definitions
valid_moves == <<"rock", "paper", "scissors">>

Moves == {valid_moves[i] : i \in 1..Len(valid_moves)}

\* class Guestures(Enum): member name -> member value
Guestures == [RESET |-> "reset", ROCK |-> "rock", PAPER |-> "paper", SCISSORS |-> "scissors"]

GuestureNames == DOMAIN Guestures

JointValues(g, y, r) == [gripper |-> g, wrist_yaw |-> y, wrist_roll |-> r]

\* get_joint_values with the ROCK and PAPER rows exchanged
get_joint_values_swapped(gesture) ==
    CASE gesture = "RESET"    -> JointValues(10000, 0, 0)
      [] gesture = "ROCK"     -> JointValues(0, 157, 0)
      [] gesture = "PAPER"    -> JointValues(0, 0, 0)
      [] gesture = "SCISSORS" -> JointValues(10000, 0, 157)

get_joint_values(gesture) ==
    CASE gesture = "RESET"    -> JointValues(10000, 0, 0)
      [] gesture = "ROCK"     -> JointValues(0, 0, 0)
      [] gesture = "PAPER"    -> JointValues(0, 157, 0)
      [] gesture = "SCISSORS" -> JointValues(10000, 0, 157)

\* str.upper() on the three move strings
upper(s) ==
    CASE s = "rock"     -> "ROCK"
      [] s = "paper"    -> "PAPER"
      [] s = "scissors" -> "SCISSORS"

\* Guestures[name]: lookup of an enum member by its name
GuestureByName(name) == CHOOSE g \in GuestureNames : g = name

\* determine_winner with the paper/rock case dropped
determine_winner_norock(stretch_choice_, player_choice_) ==
    IF stretch_choice_ = player_choice_ THEN "It's a tie!"
    ELSE IF \/ (stretch_choice_ = "rock" /\ player_choice_ = "scissors")
            \/ (stretch_choice_ = "scissors" /\ player_choice_ = "paper")
         THEN "Stretch wins!"
         ELSE "You win!"

determine_winner(stretch_choice_, player_choice_) ==
    IF stretch_choice_ = player_choice_ THEN "It's a tie!"
    ELSE IF \/ (stretch_choice_ = "rock" /\ player_choice_ = "scissors")
            \/ (stretch_choice_ = "paper" /\ player_choice_ = "rock")
            \/ (stretch_choice_ = "scissors" /\ player_choice_ = "paper")
         THEN "Stretch wins!"
         ELSE "You win!"

\* the countdown with two words exchanged
CountdownWordsSwapped == <<"Rock", "Scissors", "Paper">>

\* for word in ["Rock", "Paper", "Scissors"]
CountdownWords == <<"Rock", "Paper", "Scissors">>

\* what the player may type at the prompt
RawInputs == {"rock", "PAPER", "Scissors", "lizard"}

\* str.lower() as click.Choice(case_sensitive=False) applies it
lower(s) ==
    CASE s = "rock"     -> "rock"
      [] s = "PAPER"    -> "paper"
      [] s = "Scissors" -> "scissors"
      [] OTHER          -> s

PromptChoices == {"rock", "paper", "scissors"}

\* click.Choice.convert: the matching choice, or "invalid" (click re-prompts)
ChoiceConvert(raw) == IF lower(raw) \in PromptChoices THEN lower(raw) ELSE "invalid"

\* ------------------------------------------------------------------ state
VARIABLES
    rounds,          \* play(rounds): the --rounds option
    pc,              \* position of the main thread
    exc,             \* exception propagating out of play ("none" if none)
    caught,          \* exception an except clause of play has caught
    robot,           \* whether self.robot has been assigned
    round_num,       \* loop variable of play
    utter,           \* argument of the speak call the main thread is in
    gesture,         \* argument of the make_gesture call in progress
    w,               \* index of the countdown word in progress (0: none yet)
    current_height,  \* local of move_arm_animation
    stretch_choice,  \* local of play_round, returned to play
    player_choice,   \* value click.prompt returned
    result,          \* value determine_winner returned
    reprompts,       \* invalid answers rejected inside the current prompt
    thr,             \* the speech thread of the current countdown word
    liftPos,         \* robot.lift.status['pos']: where the lift is
    target,          \* joint targets in force (last flushed)
    staged,          \* joint targets staged and not yet flushed
    nInterrupts,     \* KeyboardInterrupts delivered so far
    intrAt,          \* pc at which the first one arrived
    faultAt,         \* pc of the push_command that raised
    wordsDone,       \* words handed to move_arm_animation in this round
    bob,             \* lift-bob steps done for the current word (0..4)
    gLog,            \* events of the make_gesture call in progress
    lastGesture,     \* argument of the last make_gesture call that returned
    trace,           \* round states entered in this round
    announced,       \* move named in "stretch played: ..." / "I choose ..."
    scored,          \* arguments of the determine_winner call of this round
    cnt              \* counters of what the session has done so far

vars == <<rounds, pc, exc, caught, robot, round_num, utter, gesture, w,
          current_height, stretch_choice, player_choice, result, reprompts,
          thr, liftPos, target, staged, nInterrupts, intrAt, faultAt,
          wordsDone, bob, gLog, lastGesture, trace, announced, scored, cnt>>

locals == <<round_num, utter, gesture, w, current_height, stretch_choice,
            player_choice, result, reprompts>>
hw     == <<liftPos, target, staged>>
hist   == <<wordsDone, bob, gLog, lastGesture, trace, announced, scored>>
intr   == <<nInterrupts, intrAt>>

Joints == {"lift", "wrist_yaw", "wrist_roll", "stretch_gripper"}

NoStage == [kind |-> "none", v |-> 0]

ZeroCnt == [cmds |-> 0, speaks |-> 0, sayFails |-> 0, prompts |-> 0, scores |-> 0,
            resets |-> 0, started |-> 0, done |-> 0, farewells |-> 0,
            errors |-> 0, cleanups |-> 0, stops |-> 0, shutdowns |-> 0, kills |-> 0]

Init ==
    /\ rounds \in 0..MaxRounds
    /\ pc = "init_robot"
    /\ exc = "none" /\ caught = "none"
    /\ robot = FALSE
    /\ round_num = 0
    /\ utter = "none" /\ gesture = "none"
    /\ w = 0 /\ current_height = 0
    /\ stretch_choice = "none" /\ player_choice = "none" /\ result = "none"
    /\ reprompts = 0
    /\ thr = "none"
    /\ liftPos \in (PreRoundHeight - MaxStartOffset)..(PreRoundHeight + MaxStartOffset)
    /\ target = [j \in Joints |-> IF j = "lift" THEN liftPos ELSE 0]
    /\ staged = [j \in Joints |-> NoStage]
    /\ nInterrupts = 0 /\ intrAt = "none" /\ faultAt = "none"
    /\ wordsDone = <<>> /\ bob = 0 /\ gLog = <<>> /\ lastGesture = "none"
    /\ trace = <<>> /\ announced = "none" /\ scored = <<>>
    /\ cnt = ZeroCnt

\* ------------------------------------------------- try / except / finally
\* Which part of play's try statement a position belongs to.
Region(p, u) ==
    IF p = "exit" THEN "exit"
    ELSE IF p \in {"cleanup", "shutdown", "killpg"} THEN "finally"
    ELSE IF \/ p \in {"except_click", "except_kbd"}
            \/ (p \in {"speak_say", "speak_sleep"} /\ u = "farewell")
         THEN "handler"
         ELSE "try"

\* a try statement whose except clauses swallow every exception and resume
\* the loop over the rounds
RaiseSwallow(e) ==
    /\ pc' = IF Region(pc, utter) = "try" THEN "loop" ELSE "exit"
    /\ exc' = "none"
    /\ caught' = e

\* An exception e raised at the main thread's position: caught by a matching
\* except clause of play if raised in the try body, then (or otherwise) the
\* finally clause runs and, uncaught, e propagates out of play.
Raise(e) ==
    LET r == Region(pc, utter) IN
    IF r = "try" /\ e = "ClickException"
    THEN pc' = "except_click" /\ caught' = e /\ exc' = exc
    ELSE IF r = "try" /\ e = "KeyboardInterrupt"
    THEN pc' = "except_kbd" /\ caught' = e /\ exc' = exc
    ELSE IF r \in {"try", "handler"}
    THEN pc' = "cleanup" /\ exc' = e /\ caught' = caught
    ELSE pc' = "exit" /\ exc' = e /\ caught' = caught

Goto(p) == pc' = p /\ UNCHANGED <<exc, caught>>

Bump(f) == cnt' = [cnt EXCEPT ![f] = @ + 1]

\* ------------------------------------------------------------- actuators
Stage(j, kind, v) == staged' = [staged EXCEPT ![j] = [kind |-> kind, v |-> v]]

\* robot.push_command(): every staged target takes force in one flush; a
\* relative lift move is relative to where the lift is when flushed.
Flush ==
    /\ target' = [j \in Joints |->
                    CASE staged[j].kind = "to" -> staged[j].v
                      [] staged[j].kind = "by" -> liftPos + staged[j].v
                      [] OTHER -> target[j]]
    /\ staged' = [j \in Joints |-> NoStage]

PushPcs == {"lift_push", "g_wpush", "g_gpush", "w_uppush", "w_downpush"}

\* The lift travels towards its target while the program runs.
LiftStep ==
    /\ liftPos # target.lift
    /\ liftPos' = IF liftPos < target.lift THEN liftPos + 1 ELSE liftPos - 1
    /\ UNCHANGED <<rounds, pc, exc, caught, robot, locals, thr, target, staged,
                   intr, faultAt, hist, cnt>>

\* push_command raises: the command is not applied, the exception leaves
\* the calling function.
PushFault ==
    /\ pc \in PushPcs
    /\ faultAt' = pc
    /\ Raise("ActuatorFault")
    /\ Bump("cmds")
    /\ UNCHANGED <<rounds, robot, locals, thr, hw, intr, hist>>

\* ------------------------------------------------------------ init_robot
\* self.robot = stretch_body.robot.Robot()
RobotCtor ==
    /\ pc = "init_robot"
    /\ robot' = TRUE
    /\ Goto("startup")
    /\ UNCHANGED <<rounds, locals, thr, hw, intr, faultAt, hist, cnt>>

\* the constructor raises: self.robot stays unassigned
RobotCtorFails ==
    /\ pc = "init_robot"
    /\ Raise("RobotError")
    /\ UNCHANGED <<rounds, robot, locals, thr, hw, intr, faultAt, hist, cnt>>

\* robot.startup() returns True; the wrist joints are fetched; play goes on
\* to game.speak("Hello! ...")
Startup ==
    /\ pc = "startup"
    /\ utter' = "hello"
    /\ Goto("speak_say")
    /\ UNCHANGED <<rounds, robot, round_num, gesture, w, current_height,
                   stretch_choice, player_choice, result, reprompts, thr, hw,
                   intr, faultAt, hist, cnt>>

\* robot.startup() returns False: raise click.ClickException
StartupFails ==
    /\ pc = "startup"
    /\ Raise("ClickException")
    /\ UNCHANGED <<rounds, robot, locals, thr, hw, intr, faultAt, hist, cnt>>

\* ------------------------------------------------------------------ speak
\* Round state a speak call of play_round / play enters, if any.
StateOfUtterance(u) ==
    CASE u = "letsplay" -> <<"Announcing">>
      [] u = "result"   -> <<"Announced">>
      [] OTHER          -> <<>>

\* Where the main thread continues after speak(u) returns.
AfterSpeak(u) ==
    CASE u = "hello"    -> "loop"
      [] u = "round"    -> "play_round"
      [] u = "letsplay" -> "get_ready"
      [] u = "shoot"    -> "commit"
      [] u = "choose"   -> "prompt"
      [] u = "result"   -> "loop"
      [] u = "thanks"   -> "cleanup"
      [] u = "farewell" -> "cleanup"

\* self.soundhandle.say(text) returns
SpeakSay ==
    /\ pc = "speak_say"
    /\ cnt' = [cnt EXCEPT !.speaks = @ + 1,
                          !.farewells = IF utter = "farewell" THEN @ + 1 ELSE @]
    /\ trace' = trace \o StateOfUtterance(utter)
    /\ Goto("speak_sleep")
    /\ UNCHANGED <<rounds, robot, locals, thr, hw, intr, faultAt, wordsDone, bob,
                   gLog, lastGesture, announced, scored>>

\* self.soundhandle.say(text) raises: speak has no handler, the exception
\* leaves speak and its caller
SpeakSayFails ==
    /\ pc = "speak_say"
    /\ cnt' = [cnt EXCEPT !.sayFails = @ + 1,
                          !.farewells = IF utter = "farewell" THEN @ + 1 ELSE @]
    /\ trace' = trace \o StateOfUtterance(utter)
    /\ Raise("SpeechError")
    /\ UNCHANGED <<rounds, robot, locals, thr, hw, intr, faultAt, wordsDone, bob,
                   gLog, lastGesture, announced, scored>>

\* time.sleep(len(text) * 0.1), then speak returns to its caller
SpeakSleep ==
    /\ pc = "speak_sleep"
    /\ Goto(AfterSpeak(utter))
    /\ cnt' = [cnt EXCEPT !.done = IF utter = "result" THEN @ + 1 ELSE @]
    /\ UNCHANGED <<rounds, robot, locals, thr, hw, intr, faultAt, hist>>

\* ------------------------------------------------------- play: the rounds
\* a loop that re-homes the arm before the first round only
LoopNoRehome ==
    /\ pc = "loop"
    /\ IF round_num < rounds
       THEN /\ round_num' = round_num + 1
            /\ Goto(IF round_num = 0 THEN "lift_stage" ELSE "round_announce")
            /\ utter' = utter
       ELSE /\ round_num' = round_num
            /\ IF rounds > 1
               THEN utter' = "thanks" /\ Goto("speak_say")
               ELSE utter' = utter /\ Goto("cleanup")
    /\ stretch_choice' = "none" /\ player_choice' = "none" /\ result' = "none"
    /\ w' = 0 /\ reprompts' = 0 /\ thr' = "none"
    /\ wordsDone' = <<>> /\ trace' = <<>> /\ announced' = "none" /\ scored' = <<>>
    /\ UNCHANGED <<rounds, robot, gesture, current_height, hw, intr, faultAt,
                   bob, gLog, lastGesture, cnt>>

\* for round_num in range(1, rounds + 1): ...; after the loop,
\* if rounds > 1: game.speak("Thanks for playing!"). The values the previous
\* round left in stretch_choice, player_choice and result are never read
\* again, and its last speech thread was joined: they are cleared here, with
\* the per-round records.
Loop ==
    /\ pc = "loop"
    /\ IF round_num < rounds
       THEN /\ round_num' = round_num + 1
            /\ Goto("lift_stage")
            /\ utter' = utter
       ELSE /\ round_num' = round_num
            /\ IF rounds > 1
               THEN utter' = "thanks" /\ Goto("speak_say")
               ELSE utter' = utter /\ Goto("cleanup")
    /\ stretch_choice' = "none" /\ player_choice' = "none" /\ result' = "none"
    /\ w' = 0 /\ reprompts' = 0 /\ thr' = "none"
    /\ wordsDone' = <<>> /\ trace' = <<>> /\ announced' = "none" /\ scored' = <<>>
    /\ UNCHANGED <<rounds, robot, gesture, current_height, hw, intr, faultAt,
                   bob, gLog, lastGesture, cnt>>

\* game.robot.lift.move_to(0.5)
LiftStage ==
    /\ pc = "lift_stage"
    /\ Stage("lift", "to", PreRoundHeight)
    /\ Goto("lift_push")
    /\ UNCHANGED <<rounds, robot, locals, thr, liftPos, target, intr, faultAt,
                   hist, cnt>>

\* game.robot.push_command()
LiftPush ==
    /\ pc = "lift_push"
    /\ Flush
    /\ Bump("cmds")
    /\ Goto("lift_wait")
    /\ UNCHANGED <<rounds, robot, locals, thr, liftPos, intr, faultAt, hist>>

\* game.robot.wait_command(): blocks until the lift has arrived (its
\* timeout, far longer than the move, is not modelled); then
\* game.make_gesture(Guestures.RESET) is called
LiftWait ==
    /\ pc = "lift_wait"
    /\ liftPos = target.lift
    /\ gesture' = "RESET"
    /\ gLog' = <<>>
    /\ Goto("g_yaw")
    /\ UNCHANGED <<rounds, robot, round_num, utter, w, current_height,
                   stretch_choice, player_choice, result, reprompts, thr, hw,
                   intr, faultAt, wordsDone, bob, lastGesture, trace, announced,
                   scored, cnt>>

\* if rounds > 1: echo "Round k"; game.speak(f"Round {round_num}")
RoundAnnounce ==
    /\ pc = "round_announce"
    /\ IF rounds > 1
       THEN utter' = "round" /\ Goto("speak_say")
       ELSE utter' = utter /\ Goto("play_round")
    /\ UNCHANGED <<rounds, robot, round_num, gesture, w, current_height,
                   stretch_choice, player_choice, result, reprompts, thr, hw,
                   intr, faultAt, hist, cnt>>

\* ----------------------------------------------------------- make_gesture
Ev(e, what) == [ev |-> e, what |-> what]

\* the (joint, value) pairs a push_command flushes
Staged == {<<j, staged[j].v>> : j \in {k \in Joints : staged[k].kind # "none"}}

\* a make_gesture that flushes the yaw target on its own, before the roll
\* target is staged
GYawFlush ==
    /\ pc = "g_yaw"
    /\ target' = [target EXCEPT !.wrist_yaw = get_joint_values(gesture).wrist_yaw]
    /\ gLog' = gLog \o
          <<Ev("stage", {<<"wrist_yaw", get_joint_values(gesture).wrist_yaw>>}),
            Ev("commit", {<<"wrist_yaw", get_joint_values(gesture).wrist_yaw>>})>>
    /\ Bump("cmds")
    /\ Goto("g_roll")
    /\ UNCHANGED <<rounds, robot, locals, thr, liftPos, staged, intr, faultAt,
                   wordsDone, bob, lastGesture, trace, announced, scored>>

\* self.wrist_yaw.move_to(joint_values.wrist_yaw)
GYaw ==
    /\ pc = "g_yaw"
    /\ Stage("wrist_yaw", "to", get_joint_values(gesture).wrist_yaw)
    /\ gLog' = Append(gLog, Ev("stage", {<<"wrist_yaw", get_joint_values(gesture).wrist_yaw>>}))
    /\ Goto("g_roll")
    /\ UNCHANGED <<rounds, robot, locals, thr, liftPos, target, intr, faultAt,
                   wordsDone, bob, lastGesture, trace, announced, scored, cnt>>

\* self.wrist_roll.move_to(joint_values.wrist_roll)
GRoll ==
    /\ pc = "g_roll"
    /\ Stage("wrist_roll", "to", get_joint_values(gesture).wrist_roll)
    /\ gLog' = Append(gLog, Ev("stage", {<<"wrist_roll", get_joint_values(gesture).wrist_roll>>}))
    /\ Goto("g_wpush")
    /\ UNCHANGED <<rounds, robot, locals, thr, liftPos, target, intr, faultAt,
                   wordsDone, bob, lastGesture, trace, announced, scored, cnt>>

\* make_gesture without its first time.sleep(1)
GWristPushNoSettle ==
    /\ pc = "g_wpush"
    /\ Flush
    /\ gLog' = Append(gLog, Ev("commit", Staged))
    /\ Bump("cmds")
    /\ Goto("g_grip")
    /\ UNCHANGED <<rounds, robot, locals, thr, liftPos, intr, faultAt,
                   wordsDone, bob, lastGesture, trace, announced, scored>>

\* self.robot.push_command(): the wrist commit
GWristPush ==
    /\ pc = "g_wpush"
    /\ Flush
    /\ gLog' = Append(gLog, Ev("commit", Staged))
    /\ Bump("cmds")
    /\ Goto("g_wsettle")
    /\ UNCHANGED <<rounds, robot, locals, thr, liftPos, intr, faultAt,
                   wordsDone, bob, lastGesture, trace, announced, scored>>

\* time.sleep(1)  # Wait for wrist to rotate
GWristSettle ==
    /\ pc = "g_wsettle"
    /\ gLog' = Append(gLog, Ev("settle", {}))
    /\ Goto("g_grip")
    /\ UNCHANGED <<rounds, robot, locals, thr, hw, intr, faultAt,
                   wordsDone, bob, lastGesture, trace, announced, scored, cnt>>

\* self.robot.end_of_arm.move_to('stretch_gripper', joint_values.gripper)
GGrip ==
    /\ pc = "g_grip"
    /\ Stage("stretch_gripper", "to", get_joint_values(gesture).gripper)
    /\ gLog' = Append(gLog, Ev("stage", {<<"stretch_gripper", get_joint_values(gesture).gripper>>}))
    /\ Goto("g_gpush")
    /\ UNCHANGED <<rounds, robot, locals, thr, liftPos, target, intr, faultAt,
                   wordsDone, bob, lastGesture, trace, announced, scored, cnt>>

\* self.robot.push_command(): the gripper commit
GGripPush ==
    /\ pc = "g_gpush"
    /\ Flush
    /\ gLog' = Append(gLog, Ev("commit", Staged))
    /\ Bump("cmds")
    /\ Goto("g_gsettle")
    /\ UNCHANGED <<rounds, robot, locals, thr, liftPos, intr, faultAt,
                   wordsDone, bob, lastGesture, trace, announced, scored>>

\* time.sleep(1); make_gesture returns, to play (after Guestures.RESET) or to
\* play_round (after the move's gesture)
GGripSettle ==
    /\ pc = "g_gsettle"
    /\ gLog' = Append(gLog, Ev("settle", {}))
    /\ lastGesture' = gesture
    /\ IF gesture = "RESET"
       THEN Bump("resets") /\ Goto("round_announce")
       ELSE cnt' = cnt /\ Goto("announce_move")
    /\ UNCHANGED <<rounds, robot, locals, thr, hw, intr, faultAt,
                   wordsDone, bob, trace, announced, scored>>

\* ------------------------------------------------------------- play_round
\* stretch_choice = game.play_round(): stretch_choice = random.choice(
\* self.valid_moves), then self.speak("Let's play!")
PlayRound ==
    /\ pc = "play_round"
    /\ \E i \in 1..Len(valid_moves) : stretch_choice' = valid_moves[i]
    /\ utter' = "letsplay"
    /\ Bump("started")
    /\ Goto("speak_say")
    /\ UNCHANGED <<rounds, robot, round_num, gesture, w, current_height,
                   player_choice, result, reprompts, thr, hw, intr, faultAt,
                   hist>>

\* click.echo("\nGet ready..."); time.sleep(1)
GetReady ==
    /\ pc = "get_ready"
    /\ Goto("word_head")
    /\ UNCHANGED <<rounds, robot, locals, thr, hw, intr, faultAt, hist, cnt>>

\* for word in [...]: the next word, or past the loop self.speak("Shoot!")
WordHead ==
    /\ pc = "word_head"
    /\ IF w < Len(CountdownWords)
       THEN w' = w + 1 /\ utter' = utter /\ Goto("w_call")
       ELSE w' = w /\ utter' = "shoot" /\ Goto("speak_say")
    /\ UNCHANGED <<rounds, robot, round_num, gesture, current_height,
                   stretch_choice, player_choice, result, reprompts, thr, hw,
                   intr, faultAt, hist, cnt>>

\* ----------------------------------------------------- move_arm_animation
\* click.echo(f"{word}..."); self.move_arm_animation(word):
\* current_height = self.robot.lift.status['pos']
WCall ==
    /\ pc = "w_call"
    /\ wordsDone' = Append(wordsDone, CountdownWords[w])
    /\ trace' = IF w = 1 THEN Append(trace, "Countdown") ELSE trace
    /\ current_height' = liftPos
    /\ bob' = 0
    /\ Goto("w_up")
    /\ UNCHANGED <<rounds, robot, round_num, utter, gesture, w, stretch_choice,
                   player_choice, result, reprompts, thr, hw, intr, faultAt,
                   gLog, lastGesture, announced, scored, cnt>>

\* self.robot.lift.move_by(up_distance)
WUp ==
    /\ pc = "w_up"
    /\ Stage("lift", "by", up_distance)
    /\ Goto("w_uppush")
    /\ UNCHANGED <<rounds, robot, locals, thr, liftPos, target, intr, faultAt,
                   hist, cnt>>

\* self.robot.push_command(): the up commit
WUpPush ==
    /\ pc = "w_uppush"
    /\ Flush
    /\ bob' = 1
    /\ Bump("cmds")
    /\ Goto("w_start")
    /\ UNCHANGED <<rounds, robot, locals, thr, liftPos, intr, faultAt,
                   wordsDone, gLog, lastGesture, trace, announced, scored>>

\* thread = threading.Thread(target=self.speak, args=(word,)); thread.start()
WStart ==
    /\ pc = "w_start"
    /\ thr' = "ready"
    /\ Goto("w_hold")
    /\ UNCHANGED <<rounds, robot, locals, hw, intr, faultAt, hist, cnt>>

\* time.sleep(0.5): the hold
WHold ==
    /\ pc = "w_hold"
    /\ bob' = 2
    /\ Goto("w_down")
    /\ UNCHANGED <<rounds, robot, locals, thr, hw, intr, faultAt,
                   wordsDone, gLog, lastGesture, trace, announced, scored, cnt>>

\* a bob that comes down by a relative move instead of returning to the
\* recorded height
WDownRelative ==
    /\ pc = "w_down"
    /\ Stage("lift", "by", 0 - up_distance)
    /\ Goto("w_downpush")
    /\ UNCHANGED <<rounds, robot, locals, thr, liftPos, target, intr, faultAt,
                   hist, cnt>>

\* self.robot.lift.move_to(current_height)
WDown ==
    /\ pc = "w_down"
    /\ Stage("lift", "to", current_height)
    /\ Goto("w_downpush")
    /\ UNCHANGED <<rounds, robot, locals, thr, liftPos, target, intr, faultAt,
                   hist, cnt>>

\* a thread object is finished when its target returned or raised
ThreadFinished(t) == t \in {"done", "died"}

\* a bob whose down commit waits for the speech thread to end
WDownPushAfterSpeech ==
    /\ pc = "w_downpush"
    /\ ThreadFinished(thr)
    /\ Flush
    /\ bob' = 3
    /\ Bump("cmds")
    /\ Goto("w_wait")
    /\ UNCHANGED <<rounds, robot, locals, thr, liftPos, intr, faultAt,
                   wordsDone, gLog, lastGesture, trace, announced, scored>>

\* self.robot.push_command(): the down commit
WDownPush ==
    /\ pc = "w_downpush"
    /\ Flush
    /\ bob' = 3
    /\ Bump("cmds")
    /\ Goto("w_wait")
    /\ UNCHANGED <<rounds, robot, locals, thr, liftPos, intr, faultAt,
                   wordsDone, gLog, lastGesture, trace, announced, scored>>

\* time.sleep(0.5)
WWait ==
    /\ pc = "w_wait"
    /\ bob' = 4
    /\ Goto("w_join")
    /\ UNCHANGED <<rounds, robot, locals, thr, hw, intr, faultAt,
                   wordsDone, gLog, lastGesture, trace, announced, scored, cnt>>

\* move_arm_animation returning without thread.join()
WJoinNoWait ==
    /\ pc = "w_join"
    /\ current_height' = 0
    /\ Goto("word_head")
    /\ UNCHANGED <<rounds, robot, round_num, utter, gesture, w, stretch_choice,
                   player_choice, result, reprompts, thr, hw, intr, faultAt, hist,
                   cnt>>

\* thread.join(): blocks until the speech thread has finished; then
\* move_arm_animation returns and its local current_height is gone
WJoin ==
    /\ pc = "w_join"
    /\ ThreadFinished(thr)
    /\ current_height' = 0
    /\ Goto("word_head")
    /\ UNCHANGED <<rounds, robot, round_num, utter, gesture, w, stretch_choice,
                   player_choice, result, reprompts, thr, hw, intr, faultAt, hist,
                   cnt>>

\* ----------------------------------------- the speech thread: speak(word)
\* self.soundhandle.say(text) returns
ThrSay ==
    /\ thr = "ready"
    /\ thr' = "sleeping"
    /\ UNCHANGED <<rounds, pc, exc, caught, robot, locals, hw, intr, faultAt,
                   hist, cnt>>

\* self.soundhandle.say(text) raises: the thread ends with the exception,
\* which stays in the thread
ThrSayFails ==
    /\ thr = "ready"
    /\ thr' = "died"
    /\ UNCHANGED <<rounds, pc, exc, caught, robot, locals, hw, intr, faultAt,
                   hist, cnt>>

\* a speech thread whose sleep never ends
ThrSleepStuck ==
    /\ thr = "sleeping"
    /\ UNCHANGED vars

\* time.sleep(len(text) * 0.1), then the thread's target returns
ThrSleep ==
    /\ thr = "sleeping"
    /\ thr' = "done"
    /\ UNCHANGED <<rounds, pc, exc, caught, robot, locals, hw, intr, faultAt,
                   hist, cnt>>

\* ------------------------------------- play_round: the robot's own gesture
\* a gesture drawn anew when it is made
CommitRedraw ==
    /\ pc = "commit"
    /\ \E i \in 1..Len(valid_moves) : gesture' = GuestureByName(upper(valid_moves[i]))
    /\ gLog' = <<>>
    /\ trace' = Append(trace, "Committing")
    /\ Goto("g_yaw")
    /\ UNCHANGED <<rounds, robot, round_num, utter, w, current_height,
                   stretch_choice, player_choice, result, reprompts, thr, hw,
                   intr, faultAt, wordsDone, bob, lastGesture, announced, scored,
                   cnt>>

\* click.echo("Shoot!\n"); self.make_gesture(Guestures[stretch_choice.upper()])
Commit ==
    /\ pc = "commit"
    /\ gesture' = GuestureByName(upper(stretch_choice))
    /\ gLog' = <<>>
    /\ trace' = Append(trace, "Committing")
    /\ Goto("g_yaw")
    /\ UNCHANGED <<rounds, robot, round_num, utter, w, current_height,
                   stretch_choice, player_choice, result, reprompts, thr, hw,
                   intr, faultAt, wordsDone, bob, lastGesture, announced, scored,
                   cnt>>

\* click.echo(f"stretch played: {stretch_choice}");
\* self.speak(f"I choose {stretch_choice}")
AnnounceMove ==
    /\ pc = "announce_move"
    /\ announced' = stretch_choice
    /\ utter' = "choose"
    /\ Goto("speak_say")
    /\ UNCHANGED <<rounds, robot, round_num, gesture, w, current_height,
                   stretch_choice, player_choice, result, reprompts, thr, hw,
                   intr, faultAt, wordsDone, bob, gLog, lastGesture, trace,
                   scored, cnt>>

\* ---------------------------------------------- play: prompt and scoring
\* play_round returns; player_choice = click.prompt(...) is called
Prompt ==
    /\ pc = "prompt"
    /\ reprompts' = 0
    /\ trace' = Append(trace, "AwaitingOpponent")
    /\ Bump("prompts")
    /\ Goto("prompt_input")
    /\ UNCHANGED <<rounds, robot, round_num, utter, gesture, w, current_height,
                   stretch_choice, player_choice, result, thr, hw, intr, faultAt,
                   wordsDone, bob, gLog, lastGesture, announced, scored>>

\* a prompt that returns to play, which calls it again, on an invalid answer
PromptRejectRecall ==
    /\ pc = "prompt_input"
    /\ reprompts < MaxReprompts
    /\ \E raw \in RawInputs : ChoiceConvert(raw) = "invalid"
    /\ reprompts' = reprompts + 1
    /\ trace' = Append(trace, "AwaitingOpponent")
    /\ Bump("prompts")
    /\ Goto("prompt_input")
    /\ UNCHANGED <<rounds, robot, round_num, utter, gesture, w, current_height,
                   stretch_choice, player_choice, result, thr, hw, intr, faultAt,
                   wordsDone, bob, gLog, lastGesture, announced, scored>>

\* inside click.prompt: the answer is none of the choices; click reports it
\* and asks again without returning
PromptReject ==
    /\ pc = "prompt_input"
    /\ reprompts < MaxReprompts
    /\ \E raw \in RawInputs : ChoiceConvert(raw) = "invalid"
    /\ reprompts' = reprompts + 1
    /\ Goto("prompt_input")
    /\ UNCHANGED <<rounds, robot, round_num, utter, gesture, w, current_height,
                   stretch_choice, player_choice, result, thr, hw, intr, faultAt,
                   hist, cnt>>

\* inside click.prompt: a valid answer; click.prompt returns the choice
PromptAnswer ==
    /\ pc = "prompt_input"
    /\ \E raw \in RawInputs :
          /\ ChoiceConvert(raw) # "invalid"
          /\ player_choice' = ChoiceConvert(raw)
    /\ Goto("score")
    /\ UNCHANGED <<rounds, robot, round_num, utter, gesture, w, current_height,
                   stretch_choice, result, reprompts, thr, hw, intr, faultAt,
                   hist, cnt>>

\* result = game.determine_winner(stretch_choice, player_choice);
\* click.echo(result); game.speak(result)
Score ==
    /\ pc = "score"
    /\ result' = determine_winner(stretch_choice, player_choice)
    /\ scored' = <<stretch_choice, player_choice>>
    /\ trace' = Append(trace, "Scored")
    /\ utter' = "result"
    /\ Bump("scores")
    /\ Goto("speak_say")
    /\ UNCHANGED <<rounds, robot, round_num, gesture, w, current_height,
                   stretch_choice, player_choice, reprompts, thr, hw, intr,
                   faultAt, wordsDone, bob, gLog, lastGesture, announced>>

\* ------------------------------------------------- play: except / finally
\* except click.ClickException as e: click.echo(f"Error: {str(e)}")
ExceptClick ==
    /\ pc = "except_click"
    /\ Bump("errors")
    /\ Goto("cleanup")
    /\ UNCHANGED <<rounds, robot, locals, thr, hw, intr, faultAt, hist>>

\* except KeyboardInterrupt: click.echo("\nGame interrupted by user");
\* game.speak("Game interrupted. Goodbye!")
ExceptKbd ==
    /\ pc = "except_kbd"
    /\ utter' = "farewell"
    /\ Goto("speak_say")
    /\ UNCHANGED <<rounds, robot, round_num, gesture, w, current_height,
                   stretch_choice, player_choice, result, reprompts, thr, hw,
                   intr, faultAt, hist, cnt>>

\* finally: game.cleanup(): if self.robot: self.robot.stop()
Cleanup ==
    /\ pc = "cleanup"
    /\ robot
    /\ cnt' = [cnt EXCEPT !.cleanups = @ + 1, !.stops = @ + 1]
    /\ Goto("shutdown")
    /\ UNCHANGED <<rounds, robot, locals, thr, hw, intr, faultAt, hist>>

\* game.cleanup() when self.robot was never assigned: reading it raises
\* AttributeError inside the finally clause
CleanupNoRobot ==
    /\ pc = "cleanup"
    /\ ~robot
    /\ Bump("cleanups")
    /\ Raise("AttributeError")
    /\ UNCHANGED <<rounds, robot, locals, thr, hw, intr, faultAt, hist>>

\* rclpy.shutdown(); cleanup returns
Shutdown ==
    /\ pc = "shutdown"
    /\ Bump("shutdowns")
    /\ Goto("killpg")
    /\ UNCHANGED <<rounds, robot, locals, thr, hw, intr, faultAt, hist>>

\* os.killpg(os.getpgid(pid=sound_play_process.pid), signal.SIGTERM); play
\* ends, a pending exception propagating to its caller
Killpg ==
    /\ pc = "killpg"
    /\ Bump("kills")
    /\ Goto("exit")
    /\ UNCHANGED <<rounds, robot, locals, thr, hw, intr, faultAt, hist>>

\* --------------------------------------------------------------- Ctrl-C
\* SIGINT: Python raises KeyboardInterrupt in the main thread wherever it
\* is, cutting short a sleep, a join or a wait. Inside click.prompt the
\* interrupt is caught by click, which raises click.Abort instead (Abort is
\* no ClickException).
Interrupt ==
    /\ pc # "exit"
    /\ nInterrupts < MaxInterrupts
    /\ nInterrupts' = nInterrupts + 1
    /\ intrAt' = IF intrAt = "none" THEN pc ELSE intrAt
    /\ IF pc = "prompt_input" THEN Raise("Abort") ELSE Raise("KeyboardInterrupt")
    /\ UNCHANGED <<rounds, robot, locals, thr, hw, faultAt, hist, cnt>>

\* ------------------------------------------------------------------- Next
Next ==
    \/ RobotCtor \/ RobotCtorFails \/ Startup \/ StartupFails
    \/ SpeakSay \/ SpeakSayFails \/ SpeakSleep
    \/ Loop \/ LiftStage \/ LiftPush \/ LiftWait \/ RoundAnnounce
    \/ GYaw \/ GRoll \/ GWristPush \/ GWristSettle \/ GGrip \/ GGripPush \/ GGripSettle
    \/ PlayRound \/ GetReady \/ WordHead
    \/ WCall \/ WUp \/ WUpPush \/ WStart \/ WHold \/ WDown \/ WDownPush \/ WWait \/ WJoin
    \/ ThrSay \/ ThrSayFails \/ ThrSleep
    \/ Commit \/ AnnounceMove \/ Prompt \/ PromptReject \/ PromptAnswer \/ Score
    \/ ExceptClick \/ ExceptKbd \/ Cleanup \/ CleanupNoRobot \/ Shutdown \/ Killpg
    \/ LiftStep \/ PushFault \/ Interrupt

Spec == Init /\ [][Next]_vars

\* ------------------------------------------- a session that is left alone
\* The steps of the main thread when nothing fails: every call returns.
MainStep ==
    \/ RobotCtor \/ Startup
    \/ SpeakSay \/ SpeakSleep
    \/ Loop \/ LiftStage \/ LiftPush \/ LiftWait \/ RoundAnnounce
    \/ GYaw \/ GRoll \/ GWristPush \/ GWristSettle \/ GGrip \/ GGripPush \/ GGripSettle
    \/ PlayRound \/ GetReady \/ WordHead
    \/ WCall \/ WUp \/ WUpPush \/ WStart \/ WHold \/ WDown \/ WDownPush \/ WWait \/ WJoin
    \/ Commit \/ AnnounceMove \/ Prompt \/ PromptAnswer \/ Score
    \/ Cleanup \/ Shutdown \/ Killpg

\* The steps of the speech thread when say() returns.
ThrStep == ThrSay \/ ThrSleep

\* A session without fault and without Ctrl-C: the main thread, the speech
\* threads, the lift and an opponent who may mistype.
QuietNext == MainStep \/ ThrStep \/ LiftStep \/ PromptReject

\* The interpreter keeps running the main thread and every started thread
\* (a sleep ends, a call returns), the lift keeps travelling to its target,
\* and the opponent, asked again after a refused answer, gives a valid one
\* in the end.
QuietSpec ==
    /\ Init
    /\ [][QuietNext]_vars
    /\ WF_vars(MainStep)
    /\ WF_vars(ThrStep)
    /\ WF_vars(LiftStep)

\* ================================================================ claims
IsPrefix(s, t) == Len(s) <= Len(t) /\ \A i \in 1..Len(s) : s[i] = t[i]

InSeq(x, s) == \E i \in 1..Len(s) : s[i] = x

\* the standard beats-relation, written out
Beats == {<<"rock", "scissors">>, <<"paper", "rock">>, <<"scissors", "paper">>}

Expected(r, p) ==
    IF r = p THEN "It's a tie!"
    ELSE IF <<r, p>> \in Beats THEN "Stretch wins!" ELSE "You win!"

PairsWith(res) ==
    {rp \in {"rock", "paper", "scissors"} \X {"rock", "paper", "scissors"} :
        determine_winner(rp[1], rp[2]) = res}

\* C1: over the nine pairs of moves determine_winner returns the tie result
\* for equal moves, the robot-wins result when the robot's move beats the
\* opponent's, the player-wins result otherwise (3 + 3 + 3 pairs), and the
\* result of every scored round is the one this relation gives for the two
\* moves that were passed to it.
C1_DetermineWinner ==
    /\ \A r \in {"rock", "paper", "scissors"}, p \in {"rock", "paper", "scissors"} :
          determine_winner(r, p) = Expected(r, p)
    /\ Cardinality(PairsWith("It's a tie!")) = 3
    /\ Cardinality(PairsWith("Stretch wins!")) = 3
    /\ Cardinality(PairsWith("You win!")) = 3
    /\ scored # <<>> => result = Expected(scored[1], scored[2])

C1_Witness ==
    /\ pc = "speak_say" /\ utter = "result"
    /\ scored = <<"paper", "rock">> /\ result = "Stretch wins!"

\* the main thread is past the countdown of the current round
PastCountdown ==
    \/ (pc \in {"speak_say", "speak_sleep"} /\ utter = "shoot")
    \/ InSeq("Committing", trace)

\* C2: the words handed to move_arm_animation in a round are, at every
\* moment, an initial part of Rock, Paper, Scissors in that order (nothing
\* reordered, passed over or repeated), and a round that is past its
\* countdown has processed exactly these three words, once each.
C2_WordOrder ==
    /\ IsPrefix(wordsDone, <<"Rock", "Paper", "Scissors">>)
    /\ PastCountdown => wordsDone = <<"Rock", "Paper", "Scissors">>

C2_Witness ==
    /\ pc = "commit" /\ round_num = 2
    /\ wordsDone = <<"Rock", "Paper", "Scissors">>

WordStepPcs == {"w_hold", "w_down", "w_downpush", "w_wait", "w_join"}

\* C3: while the speech thread of a word is unfinished the main thread is
\* still inside that word's move_arm_animation (unless an exception took it
\* out of the round), and whenever move_arm_animation has returned, so that
\* the next word or the step after the countdown can begin, the lift bob of
\* the word (up commit, hold, down commit, wait) is complete and the speech
\* thread has finished.
C3_Join ==
    /\ (thr \in {"ready", "sleeping"} /\ Region(pc, utter) = "try") => pc \in WordStepPcs
    /\ (pc = "word_head" /\ w >= 1) => (bob = 4 /\ ThreadFinished(thr))

C3_Witness == pc = "word_head" /\ w = 2 /\ bob = 4 /\ thr = "done"

JointsOf(e) == {p[1] : p \in e.what}

\* C4: in every make_gesture call, whatever the gesture, each event that
\* concerns the gripper (staging its target, flushing it) comes after a
\* flush of both wrist targets and after the settle wait that follows that
\* flush.
C4_WristBeforeGripper ==
    \A i \in 1..Len(gLog) :
        "stretch_gripper" \in JointsOf(gLog[i]) =>
            \E j \in 1..Len(gLog) :
                /\ j + 1 < i
                /\ gLog[j].ev = "commit"
                /\ JointsOf(gLog[j]) = {"wrist_yaw", "wrist_roll"}
                /\ gLog[j + 1].ev = "settle"

C4_Witness ==
    /\ pc = "g_gsettle" /\ gesture = "SCISSORS"
    /\ gLog[6].ev = "commit" /\ JointsOf(gLog[6]) = {"stretch_gripper"}

\* no exception was raised in the main thread so far
Undisturbed == exc = "none" /\ caught = "none"

\* C5: no round starts without its own completed Reset cycle: when
\* play_round is about to be called the resets done are one more than the
\* rounds started so far, the last gesture made is Reset, the Reset pose is
\* in force and the lift stands at the pre-round height; and a session that
\* ends without any exception has done exactly `rounds` Reset cycles and
\* `rounds` full rounds.
C5_ResetThenRound ==
    /\ cnt.started <= cnt.resets /\ cnt.resets <= cnt.started + 1
    /\ pc = "play_round" =>
          /\ cnt.resets = cnt.started + 1 /\ cnt.resets = round_num
          /\ lastGesture = "RESET"
          /\ target = [lift |-> 5, wrist_yaw |-> 0, wrist_roll |-> 0,
                       stretch_gripper |-> 10000]
          /\ liftPos = 5
    /\ (pc = "exit" /\ Undisturbed) =>
          cnt.resets = rounds /\ cnt.started = rounds /\ cnt.done = rounds

C5_Witness == pc = "exit" /\ Undisturbed /\ rounds = 2 /\ cnt.done = 2 /\ cnt.resets = 2

\* the push_command that raised was one of make_gesture's two
GestureFault == faultAt \in {"g_wpush", "g_gpush"}

\* C6: once a push_command of make_gesture has raised, no command is issued
\* again (the failed one included), nothing is staged or flushed, no speak
\* call is made by either thread, no prompt, no scoring and no further round
\* or Reset cycle happens; cleanup is never invoked twice, and when play ends
\* after such a fault (no Ctrl-C having been pressed) it was invoked once.
C6_FaultAborts ==
    /\ [](cnt.cleanups <= 1)
    /\ []((pc = "exit" /\ GestureFault /\ nInterrupts = 0) => cnt.cleanups = 1)
    /\ [][GestureFault =>
            /\ cnt'.cmds = cnt.cmds /\ cnt'.speaks = cnt.speaks
            /\ cnt'.sayFails = cnt.sayFails /\ cnt'.prompts = cnt.prompts
            /\ cnt'.scores = cnt.scores /\ cnt'.started = cnt.started
            /\ cnt'.resets = cnt.resets /\ cnt'.done = cnt.done
            /\ target' = target /\ staged' = staged /\ thr' = thr
            /\ round_num' = round_num /\ trace' = trace]_vars

C6_Witness ==
    /\ pc = "exit" /\ faultAt = "g_gpush" /\ gesture = "PAPER"
    /\ rounds = 2 /\ round_num = 1 /\ nInterrupts = 0
    /\ cnt.cleanups = 1 /\ cnt.started = 1 /\ cnt.prompts = 0

\* the first Ctrl-C arrived in the try body of play, after init_robot
InterruptedInSession ==
    intrAt \notin {"none", "init_robot", "startup", "except_click", "except_kbd",
                   "cleanup", "shutdown", "killpg"}

\* C7: after a Ctrl-C no round is started, and a session that was
\* interrupted after the robot was initialised (and before its teardown
\* began) ends with the farewell attempted exactly once and cleanup invoked
\* exactly once.
C7_InterruptFarewell ==
    /\ intrAt # "none" => pc # "play_round"
    /\ (pc = "exit" /\ InterruptedInSession) =>
          (cnt.farewells = 1 /\ cnt.cleanups = 1)

\* C8: a session in which say() failed, but no Ctrl-C was pressed, still
\* plays all its rounds to their end.
C8_SpeechFailureTolerated ==
    (pc = "exit" /\ cnt.sayFails > 0 /\ nInterrupts = 0) => cnt.done = rounds

GesturePcs == {"g_yaw", "g_roll", "g_wpush", "g_wsettle", "g_grip", "g_gpush", "g_gsettle"}

\* the pose in force on wrist and gripper is the table entry of gesture g
PoseInForce(g) ==
    /\ target.wrist_yaw = get_joint_values(g).wrist_yaw
    /\ target.wrist_roll = get_joint_values(g).wrist_roll
    /\ target.stretch_gripper = get_joint_values(g).gripper

C9_State ==
    /\ wordsDone # <<>> => stretch_choice \in {"rock", "paper", "scissors"}
    /\ (InSeq("Committing", trace) /\ pc \in GesturePcs) =>
          (gesture # "RESET" /\ Guestures[gesture] = stretch_choice)
    /\ announced # "none" =>
          /\ announced = stretch_choice
          /\ lastGesture # "RESET" /\ Guestures[lastGesture] = stretch_choice
          /\ PoseInForce(lastGesture)
    /\ scored # <<>> => (scored[1] = stretch_choice /\ scored[1] = announced)

\* C9: the robot's move is one of the three moves before the first countdown
\* word of the round, and from then on it does not change while the round
\* lasts; the gesture made after the countdown is the one whose value is that
\* move (never Reset), its pose is the one in force when the move is
\* announced, and the move announced and the move passed to
\* determine_winner are that move.
C9_MoveFixed ==
    /\ []C9_State
    /\ [][(stretch_choice # "none" /\ pc # "loop") => stretch_choice' = stretch_choice]_vars

C9_Witness ==
    /\ pc = "score" /\ stretch_choice = "scissors" /\ announced = "scissors"
    /\ lastGesture = "SCISSORS" /\ target.wrist_roll = 157
    /\ target.stretch_gripper = 10000

RoundStates == <<"Announcing", "Countdown", "Committing", "AwaitingOpponent",
                 "Scored", "Announced">>

\* C10: the states a round has entered are, at every moment, an initial part
\* of Announcing, Countdown, Committing, AwaitingOpponent, Scored,
\* Announced; click.prompt is called at most once per round started, and
\* only when make_gesture for the move has returned and the move has been
\* announced; scoring uses the value the prompt returned; a round that ends
\* has entered all six states, and an exception-free session has prompted
\* once per round.
C10_RoundStates ==
    /\ IsPrefix(trace, RoundStates)
    /\ cnt.prompts <= cnt.started
    /\ InSeq("AwaitingOpponent", trace) =>
          /\ lastGesture = upper(stretch_choice)
          /\ Len(gLog) = 7 /\ gLog[7].ev = "settle"
          /\ announced = stretch_choice
          /\ cnt.prompts = cnt.started
    /\ InSeq("Scored", trace) =>
          (player_choice \in {"rock", "paper", "scissors"} /\ scored[2] = player_choice)
    /\ (pc = "speak_sleep" /\ utter = "result") => trace = RoundStates
    /\ (pc = "exit" /\ Undisturbed) => cnt.prompts = rounds

C10_Witness ==
    /\ pc = "speak_sleep" /\ utter = "result" /\ trace = RoundStates
    /\ reprompts = 1 /\ round_num = 2 /\ cnt.prompts = 2

\* a command was flushed and the wait that follows it in the code has not
\* run to its end: the sleep after a push_command of make_gesture, the hold
\* or the final sleep of a lift bob
WaitPending ==
    \/ (gLog # <<>> /\ gLog[Len(gLog)].ev = "commit")
    \/ bob \in {1, 3}

\* C11: when a Ctrl-C has taken the main thread out of the try body, no
\* flushed command is left whose wait was cut short: the sleeps of
\* make_gesture and of the lift bob, and the wait_command of the pre-round
\* lift move, have run to their end.
C11_WaitsComplete ==
    (intrAt # "none" /\ Region(pc, utter) # "try") =>
        (~WaitPending /\ intrAt # "lift_wait")

\* positions of the flushes in the log of the current make_gesture call
CommitIdx == {i \in 1..Len(gLog) : gLog[i].ev = "commit"}

\* the (wrist_yaw, wrist_roll) pairs of the four poses
WristPairs == {<<0, 0>>, <<157, 0>>, <<0, 157>>}

\* C12: a make_gesture call flushes at most twice, and exactly twice once it
\* has returned; its first flush carries the yaw and the roll target of the
\* gesture's pose together and nothing else, its second flush carries the
\* gripper target alone; what follows a flush in the call is its settle
\* wait; and the (yaw, roll) pair in force is at every moment the wrist pair
\* of one pose, never the yaw of one gesture with the roll of another.
C12_WristTogether ==
    /\ Cardinality(CommitIdx) <= 2
    /\ Len(gLog) = 7 => Cardinality(CommitIdx) = 2
    /\ \A i \in CommitIdx :
          /\ IF \A j \in CommitIdx : i <= j
             THEN gLog[i].what = {<<"wrist_yaw", get_joint_values(gesture).wrist_yaw>>,
                                  <<"wrist_roll", get_joint_values(gesture).wrist_roll>>}
             ELSE gLog[i].what = {<<"stretch_gripper", get_joint_values(gesture).gripper>>}
          /\ i < Len(gLog) => gLog[i + 1].ev = "settle"
    /\ <<target.wrist_yaw, target.wrist_roll>> \in WristPairs

C12_Witness ==
    /\ pc = "g_gsettle" /\ gesture = "PAPER" /\ Cardinality(CommitIdx) = 2
    /\ target.wrist_yaw = 157 /\ target.wrist_roll = 0 /\ target.stretch_gripper = 0

\* the table of poses in hundredths: gripper / wrist_yaw / wrist_roll
PoseTable ==
    [RESET    |-> [gripper |-> 10000, wrist_yaw |-> 0,   wrist_roll |-> 0],
     ROCK     |-> [gripper |-> 0,     wrist_yaw |-> 0,   wrist_roll |-> 0],
     PAPER    |-> [gripper |-> 0,     wrist_yaw |-> 157, wrist_roll |-> 0],
     SCISSORS |-> [gripper |-> 10000, wrist_yaw |-> 0,   wrist_roll |-> 157]]

PosePairs(g) ==
    {<<"wrist_yaw", PoseTable[g].wrist_yaw>>, <<"wrist_roll", PoseTable[g].wrist_roll>>,
     <<"stretch_gripper", PoseTable[g].gripper>>}

\* C13: get_joint_values is defined on exactly the four gestures and gives
\* for each its table entry (Reset 100/0/0, Rock 0/0/0, Paper 0/1.57/0,
\* Scissors 100/0/1.57); in every round of a session every target that
\* make_gesture stages or flushes is the table value of the gesture it was
\* called with, and a make_gesture that returned has put exactly that
\* entry in force: the lookup gives the same value on every call and
\* nothing a round does changes the table.
C13_PoseLookup ==
    /\ GuestureNames = DOMAIN PoseTable
    /\ \A g \in GuestureNames : get_joint_values(g) = PoseTable[g]
    /\ \A i \in 1..Len(gLog) :
          gLog[i].ev \in {"stage", "commit"} => gLog[i].what \subseteq PosePairs(gesture)
    /\ Len(gLog) = 7 =>
          /\ target.wrist_yaw = PoseTable[gesture].wrist_yaw
          /\ target.wrist_roll = PoseTable[gesture].wrist_roll
          /\ target.stretch_gripper = PoseTable[gesture].gripper

C13_Witness ==
    /\ round_num = 2 /\ Len(gLog) = 7 /\ gesture = "SCISSORS"
    /\ target.wrist_roll = 157 /\ target.stretch_gripper = 10000

\* the speech thread of a countdown word has been started and has not ended
ThreadRunning == thr \in {"ready", "sleeping"}

\* steps of the main thread that lie outside a countdown word step: the
\* calls of make_gesture, the prompt, a speak call, the teardown
OutsideWordPcs ==
    GesturePcs \cup {"prompt", "prompt_input", "speak_say", "speak_sleep",
                     "cleanup", "shutdown", "killpg"}

\* C14: while the speech thread of a countdown word is still running, the
\* main thread is at no step outside that word's step: it makes no gesture,
\* does not prompt, does not speak and does not tear down.
C14_SpeechJoined == ThreadRunning => pc \notin OutsideWordPcs

\* commands flushed by a round up to its countdown: the lift move and the
\* two flushes of the RESET gesture; by a whole round: these, two per
\* countdown word and the two flushes of the robot's own gesture
CmdsBeforeCountdown == 3

CmdsPerRound == CmdsBeforeCountdown + 2 * Len(CountdownWords) + 2

C15_State ==
    /\ pc = "w_uppush" => staged.lift = [kind |-> "by", v |-> up_distance]
    /\ pc = "w_downpush" => staged.lift = [kind |-> "to", v |-> current_height]
    /\ pc \in {"w_wait", "w_join"} => (target.lift = current_height /\ bob >= 3)
    /\ (pc = "word_head" /\ w >= 1) =>
          /\ bob = 4
          /\ cnt.cmds = CmdsPerRound * (round_num - 1) + CmdsBeforeCountdown + 2 * w

C15_Step ==
    /\ (pc = "w_call" /\ pc' = "w_up") => (current_height' = liftPos /\ bob' = 0)
    /\ (pc = "w_hold" /\ pc' = "w_down") => bob = 1
    /\ (pc = "w_join" /\ pc' = "word_head") =>
          (bob = 4 /\ target'.lift = current_height /\ cnt'.cmds = cnt.cmds)

\* C15: a call of move_arm_animation records the lift height it finds,
\* flushes a relative move up by up_distance, holds, and flushes an absolute
\* move to the recorded height; when it returns, the lift target in force is
\* the height it recorded, it has flushed exactly two commands (so the count
\* of commands at the loop head grows by two per word), and the next call
\* records the height anew and starts from the same initial state.
C15_RoundTrip == []C15_State /\ [][C15_Step]_vars

C15_Witness ==
    /\ pc = "word_head" /\ round_num = 2 /\ w = 2 /\ bob = 4
    /\ cnt.cmds = CmdsPerRound + CmdsBeforeCountdown + 4
    /\ Undisturbed

\* the main thread is inside move_arm_animation, past the reading of the
\* lift height
InBob ==
    pc \in {"w_up", "w_uppush", "w_start", "w_hold", "w_down", "w_downpush",
            "w_wait", "w_join"}

\* C16: in every round and for every countdown word, the height that
\* move_arm_animation has recorded is the pre-round height.
C16_NoDrift == InBob => current_height = PreRoundHeight

\* neither side of a word step waits for the other: the hold, the staging
\* and the flush of the lift-down command can be taken whatever the speech
\* thread is doing, and the speech thread can take its steps wherever the
\* main thread is
C17_State ==
    /\ pc = "w_hold" => ENABLED WHold
    /\ pc = "w_down" => ENABLED WDown
    /\ pc = "w_downpush" => ENABLED WDownPush
    /\ thr = "ready" => ENABLED ThrSay
    /\ thr = "sleeping" => ENABLED ThrSleep
    /\ pc = "w_start" => bob = 1
    /\ pc \in {"w_down", "w_downpush"} => (bob = 2 /\ thr # "none")

\* the speech thread is started by the step that follows the up commit, and
\* the lift-down command is reached only through that step and the hold
C17_Step ==
    /\ (pc' = "w_hold" /\ pc # "w_hold") => (pc = "w_start" /\ thr' = "ready")
    /\ (pc' = "w_down" /\ pc # "w_down") => pc = "w_hold"
    /\ (pc' = "w_downpush" /\ pc # "w_downpush") => pc = "w_down"
    /\ (thr' = "ready" /\ thr # "ready") => pc = "w_start"

\* C17: in a word step the speech thread is started before the lift-down
\* command is issued; the lift-down command is issued after the hold
\* whether or not the speech has ended, and the speech goes on whether or
\* not the lift-down command has been issued, so that where the thread is
\* still speaking at the lift-down flush either of the two can come first.
C17_Overlap == []C17_State /\ [][C17_Step]_vars

C17_Witness ==
    /\ pc = "w_downpush" /\ thr = "sleeping"
    /\ ENABLED WDownPush /\ ENABLED ThrSleep

\* init_robot did not return: the constructor raised (self.robot was never
\* assigned) or startup() reported failure
InitFailed ==
    \/ (~robot /\ pc # "init_robot")
    \/ caught = "ClickException"

\* C18: when init_robot has failed (and no Ctrl-C came), the session issues
\* no actuator command, speaks nothing, starts no round and prompts
\* nobody, and when it has ended it has reported the failure once, has run
\* cleanup once, has stopped the robot if there is one, has shut the
\* messaging down once and has ended the sound process once.
C18_InitFailure ==
    (InitFailed /\ nInterrupts = 0) =>
        /\ cnt.cmds = 0 /\ cnt.speaks = 0 /\ cnt.prompts = 0 /\ cnt.started = 0
        /\ pc = "exit" =>
              /\ cnt.errors = 1 /\ cnt.cleanups = 1
              /\ (robot => cnt.stops = 1)
              /\ cnt.shutdowns = 1 /\ cnt.kills = 1

\* positions where the main thread blocks: the wait for the lift, the settle
\* sleeps of a gesture, the sleep of a speak call, the sleep after the
\* lift-down commit, the join, the prompt
BlockingPcs ==
    {"lift_wait", "g_wsettle", "g_gsettle", "speak_sleep", "w_hold", "w_wait",
     "w_join", "prompt_input"}

\* the session has ended after all its rounds and a complete teardown
Ended ==
    /\ pc = "exit" /\ exc = "none" /\ caught = "none"
    /\ round_num = rounds /\ cnt.started = rounds /\ cnt.done = rounds
    /\ cnt.cleanups = 1 /\ cnt.stops = 1 /\ cnt.shutdowns = 1 /\ cnt.kills = 1

\* C19: in a session without fault and without Ctrl-C, whose opponent
\* answers each prompt in the end, every blocking step of the main thread
\* is left again (no word step waits for ever on its speech thread), and
\* the session ends: all its rounds have been announced and the teardown
\* has run.
C19_Terminates ==
    /\ \A p \in BlockingPcs : (pc = p) ~> (pc # p)
    /\ <>Ended

C19_Witness == Ended /\ rounds = MaxRounds /\ cnt.prompts = MaxRounds

====
